---- MODULE Spec2Model ----
(***************************************************************************)
(* pixelstats ChargeStatsReporter: one drain of the charge-stats logs.     *)
(*                                                                         *)
(* Text is modelled by its scan structure.  A line is a literal tag        *)
(* ("", "A:" or "D:") followed by number tokens; a token records the       *)
(* separator written before it ("C": a comma, "S": white space only, "":   *)
(* none, for the first token), its digits (0..15, so 10..15 are the hex    *)
(* letters a..f) and an optional one-digit fraction.  sscanf is computed   *)
(* on that structure the way libc computes it on the characters: it stops  *)
(* at the first literal or conversion that does not match and has stored   *)
(* every field converted before that point.                                *)
(***************************************************************************)
EXTENDS Integers, Sequences, FiniteSets, TLC

VARIABLES
    log_event_time_secs_,  \* ChargeStatsReporter::log_event_time_secs_
    tier_soc_,             \* wireless_charge_stats_.tier_soc_
    files,                 \* source id -> name of the text its sysfs node holds (TextOf)
    now,                   \* seconds since boot (SYSTEM_TIME_BOOTTIME)
    last_accept,           \* history: time shouldReportEvent last returned true, NoTime if never
    last_emit,             \* history: time of the last drain that emitted a session record
    seen,                  \* history: source id -> what the drains did with its present text
    threads,               \* caller id -> where it is inside shouldReportEvent
    obs                    \* history: what the last step did (NoObs after an environment step)

vars == <<log_event_time_secs_, tier_soc_, files, now, last_accept, last_emit, seen, threads,
          obs>>

----------------------------------------------------------------------------
(* Program constants *)

DURATION_FILTER_SECS == 15
chg_fields_size == 17
chg_wlc_fields_size == 7
vtier_fields_size == 20
vtier_wlc_fields_size == 4
ADAPTER_TYPE_USB_PD_PPS == 9

(* Bounds of the model *)

MaxTime == 40          \* the boot clock stops advancing here
MaxWindows == 1        \* windows the clock can elapse in the drain specification
MaxRaceTime == 3       \* the boot clock stops here where two callers race
MaxSeenWindows == 1    \* windows the clock can elapse where the history of each text is kept

NoTime == 0 - 1
Unset == 0 - 1            \* a VendorAtomValue the code never assigned
NoFrac == 0 - 1

----------------------------------------------------------------------------
(* Text *)

Tok(sep, digits, frac) == [sep |-> sep, digits |-> digits, frac |-> frac]
Line(tag, toks) == [tag |-> tag, toks |-> toks]

\* "n" written in decimal, for n < 100
Digits(n) == IF n < 10 THEN <<n>> ELSE <<n \div 10, n % 10>>

\* the tokens "a,b,c..." : every number of ns with the separator of seps before it
Toks(seps, ns) == [i \in 1..Len(ns) |-> Tok(seps[i], Digits(ns[i]), NoFrac)]

EmptyLine == Line("", <<>>)
IsEmpty(line) == line.tag = "" /\ line.toks = <<>>

\* what WriteStringToFile("0", path) leaves in a node
ClearedText == <<Line("", <<Tok("", <<0>>, NoFrac)>>)>>
Cleared == "0"          \* its name
NoFile == "ENOENT"      \* the node does not exist on this device

RECURSIVE Value(_, _)
Value(digits, base) ==
    IF digits = <<>> THEN 0
    ELSE Value(SubSeq(digits, 1, Len(digits) - 1), base) * base + digits[Len(digits)]

RECURSIVE DecPrefix(_)
DecPrefix(digits) ==
    IF digits = <<>> \/ digits[1] > 9 THEN <<>>
    ELSE <<digits[1]>> \o DecPrefix(Tail(digits))

\* One conversion on one token: whether it converts, the value stored, and
\* whether the whole token was consumed (if not, the next literal of the
\* format meets the rest of the token and the scan ends).
ScanTok(conv, tok) ==
    LET dec == DecPrefix(tok.digits)
        whole == Len(dec) = Len(tok.digits)
    IN  CASE conv = "d" ->
               [ok |-> dec # <<>>, val |-> Value(dec, 10),
                clean |-> whole /\ tok.frac = NoFrac]
          [] conv = "x" ->
               [ok |-> tok.digits # <<>>, val |-> Value(tok.digits, 16),
                clean |-> tok.frac = NoFrac]
          [] conv = "f" ->  \* stored in tenths
               [ok |-> dec # <<>>,
                val |-> Value(dec, 10) * 10
                        + (IF whole /\ tok.frac # NoFrac THEN tok.frac ELSE 0),
                clean |-> whole]

RECURSIVE ScanFrom(_, _, _)
ScanFrom(convs, toks, i) ==
    IF i > Len(convs) \/ i > Len(toks) THEN <<>>
    ELSE IF toks[i].sep # convs[i].sep THEN <<>>
    ELSE LET r == ScanTok(convs[i].conv, toks[i])
         IN  IF ~r.ok THEN <<>>
             ELSE IF r.clean THEN <<r.val>> \o ScanFrom(convs, toks, i + 1)
             ELSE <<r.val>>

\* sscanf(line, fmt, ...): the values stored, in order; its return value is
\* their number.
Sscanf(line, fmt) ==
    IF line.tag # fmt.tag THEN <<>> ELSE ScanFrom(fmt.convs, line.toks, 1)

Fmt(tag, seps, conv) ==
    [tag |-> tag, convs |-> [i \in 1..Len(seps) |-> [sep |-> seps[i], conv |-> conv]]]

CHG_STATS_FMT0 == Fmt("", <<"", "C", "C", "C", "C", "C", "C">>, "d")
CHG_STATS_FMT1 == Fmt("", <<"", "C", "C", "C", "C", "C", "C", "S">>, "d")
CHG_STATS_FMT2 == Fmt("", <<"", "C", "C", "C", "C", "C", "C", "S", "S", "C">>, "d")
WLC_AT_FMT == Fmt("A:", <<"">>, "d")
WLC_AC_FMT == Fmt("D:", <<"", "C", "C", "C", "C", "C", "C">>, "x")
PCA_FMT == Fmt("D:", <<"", "C", "S", "C", "C", "C", "C">>, "x")
PDO_FMT == Fmt("D:", <<"", "C", "C", "C", "C", "C", "C">>, "x")
VTIER_FMT ==
    LET f == Fmt("", <<"", "C", "C", "C", "C", "C", "C", "C", "C", "C", "C", "C", "C", "C",
                       "C", "C">>, "d")
    IN  [f EXCEPT !.convs[2].conv = "f"]

\* store vals[k] into tmp[idx[k]] for every value scanned
Store(tmp, idx, vals) ==
    [i \in DOMAIN tmp |->
        IF \E k \in 1..Len(vals) : idx[k] = i
        THEN vals[CHOOSE k \in 1..Len(vals) : idx[k] = i]
        ELSE tmp[i]]

----------------------------------------------------------------------------
(* ChargeStatsReporter::ReportChargeStats *)

Seq0(n) == [k \in 1..n |-> k - 1]          \* <<0, 1, ..., n-1>>
ZeroTmp == [i \in 0..(chg_fields_size - 1) |-> 0]

\* mutant of ScanSummary: the return after "Couldn't process" is missing
ScanSummary_noreturn(line) ==
    [ok |-> TRUE, fmt |-> "base",
     tmp |-> Store(ZeroTmp, Seq0(7), Sscanf(line, CHG_STATS_FMT0))]

\* mutant of SummaryTmp: the base format is tried first
SummaryTmp_basefirst(s2, s1, s0) ==
    IF Len(s0) = 7 THEN Store(ZeroTmp, Seq0(7), s0)
    ELSE IF Len(s1) = 8 THEN Store(Store(ZeroTmp, Seq0(7), s0), Seq0(8), s1)
    ELSE Store(Store(Store(ZeroTmp, Seq0(7), s0), Seq0(8), s1), Seq0(10), s2)

\* tmp after the CSI, the AACR and the base attempt stored s2, s1 and s0: every
\* attempt stores the fields it converts, whether or not it then counts as a
\* match, and a later attempt is made only when the earlier ones failed
SummaryTmp(s2, s1, s0) ==
    IF Len(s2) = 10 THEN Store(ZeroTmp, Seq0(10), s2)
    ELSE IF Len(s1) = 8 THEN Store(Store(ZeroTmp, Seq0(10), s2), Seq0(8), s1)
    ELSE Store(Store(Store(ZeroTmp, Seq0(10), s2), Seq0(8), s1), Seq0(7), s0)

SummaryFmt(s2, s1, s0) ==
    IF Len(s2) = 10 THEN "CSI"
    ELSE IF Len(s1) = 8 THEN "AACR"
    ELSE IF Len(s0) # 7 THEN "none"
    ELSE "base"

\* the three sscanf attempts on the summary line
ScanSummary(line) ==
    [ok |-> SummaryFmt(Sscanf(line, CHG_STATS_FMT2), Sscanf(line, CHG_STATS_FMT1),
                       Sscanf(line, CHG_STATS_FMT0)) # "none",
     fmt |-> SummaryFmt(Sscanf(line, CHG_STATS_FMT2), Sscanf(line, CHG_STATS_FMT1),
                        Sscanf(line, CHG_STATS_FMT0)),
     tmp |-> SummaryTmp(Sscanf(line, CHG_STATS_FMT2), Sscanf(line, CHG_STATS_FMT1),
                        Sscanf(line, CHG_STATS_FMT0))]

\* wireless_charge_stats_.TranslateSysModeToAtomValue
TranslateSysModeToAtomValue(mode) == 100 + mode

\* st = [tmp, fields_size]; a and d are what the "A:" and the "D:" scan stored
WlcStore(st, a, d) ==
    IF Len(a) # 1 THEN st
    ELSE [tmp |-> Store([st.tmp EXCEPT ![0] = TranslateSysModeToAtomValue(a[1])],
                        <<10, 11, 12, 13, 14, 15, 16>>, d),
          fields_size |-> IF Len(d) # 7 THEN st.fields_size ELSE chg_fields_size]

MergeWireless(st, wline_at, wline_ac) ==
    IF IsEmpty(wline_at) THEN st
    ELSE WlcStore(st, Sscanf(wline_at, WLC_AT_FMT), Sscanf(wline_ac, WLC_AC_FMT))

\* mutants of PcaStore: the adapter type is forced to PPS whether or not there
\* is a wireless log; the PCA capabilities are not copied when there is none
PcaStore_pps(st, no_wlc, p) ==
    IF Len(p) # 7 THEN st
    ELSE [tmp |-> [st.tmp EXCEPT ![12] = p[5], ![13] = p[6], ![14] = p[7], ![16] = p[4],
                                 ![0] = ADAPTER_TYPE_USB_PD_PPS,
                                 ![10] = p[1], ![11] = p[2], ![15] = p[3]],
          fields_size |-> chg_fields_size]

PcaStore_nocaps(st, no_wlc, p) ==
    IF Len(p) # 7 THEN st
    ELSE [tmp |-> IF no_wlc
                  THEN [st.tmp EXCEPT ![12] = p[5], ![13] = p[6], ![14] = p[7],
                                      ![16] = p[4], ![0] = ADAPTER_TYPE_USB_PD_PPS]
                  ELSE [st.tmp EXCEPT ![12] = p[5], ![13] = p[6], ![14] = p[7],
                                      ![16] = p[4]],
          fields_size |-> chg_fields_size]

\* the PCA scan stored pca_ac[0], pca_ac[1], pca_rs[0..4] in p[1..7]; no_wlc is
\* wline_at.empty()
PcaStore(st, no_wlc, p) ==
    IF Len(p) # 7 THEN st
    ELSE [tmp |-> IF no_wlc
                  THEN [st.tmp EXCEPT ![12] = p[5], ![13] = p[6], ![14] = p[7],
                                      ![16] = p[4], ![0] = ADAPTER_TYPE_USB_PD_PPS,
                                      ![10] = p[1], ![11] = p[2], ![15] = p[3]]
                  ELSE [st.tmp EXCEPT ![12] = p[5], ![13] = p[6], ![14] = p[7],
                                      ![16] = p[4]],
          fields_size |-> chg_fields_size]

MergePca(st, wline_at, pca_line) ==
    IF IsEmpty(pca_line) THEN st
    ELSE PcaStore(st, IsEmpty(wline_at), Sscanf(pca_line, PCA_FMT))

\* index of the first line of text that scans as 7 hex fields, 0 if none
RECURSIVE FirstPdo(_, _)
FirstPdo(text, i) ==
    IF i > Len(text) THEN 0
    ELSE IF Len(Sscanf(text[i], PDO_FMT)) = 7 THEN i
    ELSE FirstPdo(text, i + 1)

\* index of the last line of text that scans as 7 hex fields, 0 if none
RECURSIVE LastPdo(_, _)
LastPdo(text, i) ==
    IF i = 0 THEN 0
    ELSE IF Len(Sscanf(text[i], PDO_FMT)) = 7 THEN i
    ELSE LastPdo(text, i - 1)

\* tmp[15] = pca_ac[1] (APDO), tmp[16] = pca_rs[4] (PDO) from line i of text
PdoStore(st, text, i) ==
    IF i = 0 THEN st
    ELSE [st EXCEPT !.tmp[15] = Sscanf(text[i], PDO_FMT)[2],
                    !.tmp[16] = Sscanf(text[i], PDO_FMT)[7]]

\* mutant of MergePdo: the loop does not break at the first match
MergePdo_nobreak(st, rd) ==
    IF rd.ok THEN PdoStore(st, rd.text, LastPdo(rd.text, Len(rd.text))) ELSE st

\* rd = the result of ReadFileToString(kGChargerMetricsPath)
MergePdo(st, rd) ==
    IF rd.ok THEN PdoStore(st, rd.text, FirstPdo(rd.text, 1)) ELSE st

\* mutant of ChargeAtom: the copy loop runs one slot too far
ChargeAtom_offbyone(st) ==
    [atomId |-> "ChargeStats", from |-> "primary", idx |-> 1,
     values |-> [i \in 0..(chg_fields_size - 1) |->
                    IF i <= st.fields_size THEN st.tmp[i] ELSE Unset]]

\* the VendorAtom handed to reportVendorAtom
ChargeAtom(st) ==
    [atomId |-> "ChargeStats", from |-> "primary", idx |-> 1,
     values |-> [i \in 0..(chg_fields_size - 1) |->
                    IF i < st.fields_size THEN st.tmp[i] ELSE Unset]]

\* the rest of ReportChargeStats once the summary line gave s = [ok, fmt, tmp]
AssembleChargeStats(s, wline_at, wline_ac, pca_line, rd) ==
    IF ~s.ok THEN <<>>
    ELSE <<ChargeAtom(
             MergePdo(
               MergePca(
                 MergeWireless([tmp |-> s.tmp,
                                fields_size |-> chg_fields_size - chg_wlc_fields_size],
                               wline_at, wline_ac),
                 wline_at, pca_line),
               rd))>>

\* the records ReportChargeStats hands to the stats service
ReportChargeStats(line, wline_at, wline_ac, pca_line, rd) ==
    AssembleChargeStats(ScanSummary(line), wline_at, wline_ac, pca_line, rd)

----------------------------------------------------------------------------
(* ChargeStatsReporter::ReportVoltageTierStats *)

\* wireless_charge_stats_.CalculateWirelessChargeStats(soc, text): pout_min_,
\* pout_avg_, pout_max_, of_freq_ and the tier soc it leaves behind
CalculateWirelessChargeStats(soc, text, tsoc) ==
    [pout |-> <<tsoc, soc, soc + 1, Len(text)>>, tier_soc |-> soc + 1]

\* the VendorAtom built from the 16 scanned fields v and the wireless stats w
TierAtom(v, w, from, idx, has_wireless) ==
    [atomId |-> "VoltageTierStats", from |-> from, idx |-> idx,
     values |-> [i \in 0..(vtier_fields_size - 1) |->
                    IF i = 0 THEN v[1]
                    ELSE IF i = 1 THEN v[2]
                    ELSE IF i <= 15 THEN v[i + 1]
                    ELSE IF has_wireless THEN w.pout[i - 15]
                    ELSE Unset]]

TierScanned(v, w, from, idx, has_wireless, tsoc) ==
    IF Len(v) # 16 THEN [sink |-> <<>>, tier_soc |-> tsoc]
    ELSE [sink |-> <<TierAtom(v, w, from, idx, has_wireless)>>,
          tier_soc |-> IF has_wireless THEN w.tier_soc ELSE tsoc]

\* the records ReportVoltageTierStats hands to the stats service for one line,
\* and wireless_charge_stats_.tier_soc_ afterwards
ReportVoltageTierStats(line, from, idx, has_wireless, wfile_contents, tsoc) ==
    TierScanned(Sscanf(line, VTIER_FMT),
                IF Len(Sscanf(line, VTIER_FMT)) = 16
                THEN CalculateWirelessChargeStats(Sscanf(line, VTIER_FMT)[2] \div 10,
                                                  wfile_contents, tsoc)
                ELSE [pout |-> <<>>, tier_soc |-> tsoc],
                from, idx, has_wireless, tsoc)

\* while (std::getline(ss, line)) ReportVoltageTierStats(...), from line idx
\* on; acc is what the loop has done so far
TierNext(acc, r) == [sink |-> acc.sink \o r.sink, tier_soc |-> r.tier_soc]

\* mutant of TierLoop: a line that does not yield a record ends the loop
RECURSIVE TierLoop_stop(_, _, _, _, _, _)
TierLoop_stop(text, from, idx, has_wireless, wfile_contents, acc) ==
    IF idx > Len(text) THEN acc
    ELSE IF ReportVoltageTierStats(text[idx], from, idx, has_wireless, wfile_contents,
                                   acc.tier_soc).sink = <<>>
    THEN acc
    ELSE TierLoop_stop(text, from, idx + 1, has_wireless, wfile_contents,
                       TierNext(acc, ReportVoltageTierStats(text[idx], from, idx, has_wireless,
                                                            wfile_contents, acc.tier_soc)))

RECURSIVE TierLoop(_, _, _, _, _, _)
TierLoop(text, from, idx, has_wireless, wfile_contents, acc) ==
    IF idx > Len(text) THEN acc
    ELSE TierLoop(text, from, idx + 1, has_wireless, wfile_contents,
                  TierNext(acc, ReportVoltageTierStats(text[idx], from, idx, has_wireless,
                                                       wfile_contents, acc.tier_soc)))

TierStream(text, from, idx, has_wireless, wfile_contents, tsoc) ==
    TierLoop(text, from, idx, has_wireless, wfile_contents,
             [sink |-> <<>>, tier_soc |-> tsoc])

----------------------------------------------------------------------------
(* Texts the power subsystem drivers write *)

CommaSeps(n) == [i \in 1..n |-> IF i = 1 THEN "" ELSE "C"]
HexToks(seps, ds) == [i \in 1..Len(ds) |-> Tok(seps[i], ds[i], NoFrac)]

\* "3,90,20, 80,44,90,45" and its AACR / CSI extensions
Sum7 == Line("", Toks(CommaSeps(7), <<3, 90, 20, 80, 44, 90, 45>>))
Sum8 == Line("", Sum7.toks \o <<Tok("S", Digits(50), NoFrac)>>)
Sum9 == Line("", Sum8.toks \o <<Tok("S", Digits(7), NoFrac)>>)
Sum10 == Line("", Sum9.toks \o <<Tok("C", Digits(2), NoFrac)>>)
Sum6 == Line("", SubSeq(Sum7.toks, 1, 6))

\* "k, 85.5,12,32, 10,5,2, 15,18,22, 20,15,10, 50,55,60"
TierLine(k) ==
    LET t == Toks(CommaSeps(16), <<k, 85, 12, 32, 10, 5, 2, 15, 18, 22, 20, 15, 10, 50, 55, 60>>)
    IN  Line("", [t EXCEPT ![2].frac = 5])
NoiseLine == Line("", SubSeq(TierLine(0).toks, 1, 3))

\* "A:2" / "D:11,12,13,14,15, 16,1a"
WlcAt == Line("A:", <<Tok("", <<2>>, NoFrac)>>)
WlcAc == Line("D:", HexToks(CommaSeps(7),
                 <<<<1, 1>>, <<1, 2>>, <<1, 3>>, <<1, 4>>, <<1, 5>>, <<1, 6>>, <<1, 10>>>>))
WlcAcShort == Line("D:", SubSeq(WlcAc.toks, 1, 3))
\* "D:21,22 23,24,25,26,2b"
PcaLine == Line("D:", HexToks(<<"", "C", "S", "C", "C", "C", "C">>,
                 <<<<2, 1>>, <<2, 2>>, <<2, 3>>, <<2, 4>>, <<2, 5>>, <<2, 6>>, <<2, 11>>>>))
\* "D:k1,k2,k3,k4,k5,k6,k7"
PdoLine(k) == Line("D:", HexToks(CommaSeps(7),
                 <<<<k, 1>>, <<k, 2>>, <<k, 3>>, <<k, 4>>, <<k, 5>>, <<k, 6>>, <<k, 7>>>>))

TextOf ==
    [id \in {Cleared, NoFile, "empty", "base", "aacr", "nine", "csi", "short", "wlc", "wlc_short",
             "pca", "tiers", "pdo", "tier"} |->
        CASE id = Cleared -> ClearedText
          [] id = NoFile -> <<>>
          [] id = "empty" -> <<>>
          [] id = "base" -> <<Sum7, TierLine(1), NoiseLine, TierLine(2)>>
          [] id = "aacr" -> <<Sum8>>
          [] id = "nine" -> <<Sum9, TierLine(1)>>
          [] id = "csi" -> <<Sum10, TierLine(1)>>
          [] id = "short" -> <<Sum6, NoiseLine, TierLine(1)>>
          [] id = "wlc" -> <<WlcAt, WlcAc, TierLine(1)>>
          [] id = "wlc_short" -> <<WlcAt, WlcAcShort>>
          [] id = "pca" -> <<PcaLine>>
          [] id = "tiers" -> <<TierLine(3), NoiseLine, TierLine(4)>>
          [] id = "pdo" -> <<Line("D:", SubSeq(PdoLine(6).toks, 1, 4)), PdoLine(3),
                             PdoLine(4), TierLine(5)>>
          [] id = "tier" -> <<TierLine(6)>>]

\* what each node can hold
Contents ==
    [s \in {"primary", "wireless", "pca", "thermal", "gcharger", "gdbatt"} |->
        CASE s = "primary" -> {Cleared, NoFile, "empty", "base", "aacr", "nine", "csi", "short"}
          [] s = "wireless" -> {Cleared, NoFile, "wlc", "wlc_short"}
          [] s = "pca" -> {Cleared, NoFile, "pca"}
          [] s = "thermal" -> {Cleared, "tiers"}
          [] s = "gcharger" -> {Cleared, NoFile, "pdo"}
          [] s = "gdbatt" -> {Cleared, "tier"}]

----------------------------------------------------------------------------
(* Files, clock and throttle *)

Sources == {"primary", "wireless", "pca", "thermal", "gcharger", "gdbatt"}

\* A drain meets at most one failing call besides those on missing nodes: the
\* clock read, the clear of one source, or one of its first calls of
\* reportVendorAtom.
NoFault == <<"none", "">>
SinkCalls == {"1", "2", "3"}
CallNo(c) == CASE c = "1" -> 1 [] c = "2" -> 2 [] c = "3" -> 3
Faults ==
    {NoFault, <<"clock", "">>} \cup ({"clear"} \X Sources) \cup ({"sink"} \X SinkCalls)

ReadFileToString(fs, s) ==
    [ok |-> fs[s] # NoFile, text |-> TextOf[fs[s]]]

\* mutant of WriteStringToFile: the call reports success and writes nothing
WriteStringToFile_noop(fs, fault, s) ==
    IF fs[s] # NoFile /\ fault # <<"clear", s>>
    THEN [ok |-> TRUE, files |-> fs]
    ELSE [ok |-> FALSE, files |-> fs]

\* WriteStringToFile("0", path): whether it succeeds, and the files afterwards
WriteStringToFile(fs, fault, s) ==
    IF fs[s] # NoFile /\ fault # <<"clear", s>>
    THEN [ok |-> TRUE, files |-> [fs EXCEPT ![s] = Cleared]]
    ELSE [ok |-> FALSE, files |-> fs]

\* mutant of checkContentsAndAck: a failed clear is logged and nothing more
checkContentsAndAck_lenient(fs, fault, s) ==
    [ret |-> ReadFileToString(fs, s).ok, text |-> ReadFileToString(fs, s).text,
     files |-> WriteStringToFile(fs, fault, s).files]

checkContentsAndAck(fs, fault, s) ==
    IF ~ReadFileToString(fs, s).ok
    THEN [ret |-> FALSE, text |-> ReadFileToString(fs, s).text, files |-> fs]
    ELSE [ret |-> WriteStringToFile(fs, fault, s).ok, text |-> ReadFileToString(fs, s).text,
          files |-> WriteStringToFile(fs, fault, s).files]

\* pca_charge_stats_.CheckPcaContentsAndAck and
\* wireless_charge_stats_.CheckWirelessContentsAndAck: read, then clear; a
\* failed clear does not withhold the text read
CheckSideChannelAndAck(fs, fault, s) ==
    [ret |-> ReadFileToString(fs, s).ok, text |-> ReadFileToString(fs, s).text,
     files |-> WriteStringToFile(fs, fault, s).files]

getTimeSecs(fault) == IF fault = <<"clock", "">> THEN 0 ELSE now

\* mutants of shouldReportEvent: the window closes one second early; the zero
\* clock is not checked
shouldReportEvent_early(current_time, log) ==
    IF current_time = 0 THEN [ret |-> FALSE, log |-> log]
    ELSE IF log = 0 \/ log + DURATION_FILTER_SECS <= current_time
         THEN [ret |-> TRUE, log |-> current_time]
         ELSE [ret |-> FALSE, log |-> log]

shouldReportEvent_nozero(current_time, log) ==
    IF log = 0 \/ log + DURATION_FILTER_SECS < current_time
    THEN [ret |-> TRUE, log |-> current_time]
    ELSE [ret |-> FALSE, log |-> log]

shouldReportEvent(current_time, log) ==
    IF current_time = 0 THEN [ret |-> FALSE, log |-> log]
    ELSE IF log = 0 \/ log + DURATION_FILTER_SECS < current_time
         THEN [ret |-> TRUE, log |-> current_time]
         ELSE [ret |-> FALSE, log |-> log]

----------------------------------------------------------------------------
(* ChargeStatsReporter::checkAndReport *)

LineAt(text, i) == IF i <= Len(text) THEN text[i] ELSE EmptyLine

\* ReportChargeStats and the primary tier loop, with the pca and wireless
\* snapshots taken (lines of a snapshot that was not taken stay empty)
SessionEmit(text, pca, wl, rd, tiers) ==
    [files |-> wl.files, tier_soc |-> tiers.tier_soc,
     sink |-> ReportChargeStats(text[1],
                                IF wl.ret THEN LineAt(wl.text, 1) ELSE EmptyLine,
                                IF wl.ret THEN LineAt(wl.text, 2) ELSE EmptyLine,
                                IF pca.ret THEN LineAt(pca.text, 1) ELSE EmptyLine,
                                rd)
              \o tiers.sink]

SessionWithWlc(text, tsoc, pca, wl) ==
    SessionEmit(text, pca, wl, ReadFileToString(wl.files, "gcharger"),
                TierStream(text, "primary", 2, wl.ret, wl.text,
                           IF wl.ret THEN 0 ELSE tsoc))

SessionWithPca(fault, text, tsoc, pca) ==
    SessionWithWlc(text, tsoc, pca, CheckSideChannelAndAck(pca.files, fault, "wireless"))

\* has_pca ... the primary tier loop, run once shouldReportEvent returned true
SessionBody(fs, fault, text, tsoc) ==
    SessionWithPca(fault, text, tsoc, CheckSideChannelAndAck(fs, fault, "pca"))

\* has_thermal, has_gcharger, has_dual_batt and their tier loops; acc is what
\* the sources before srcs left
AuxNext(acc, a, from) ==
    [files |-> a.files,
     sink |-> IF a.ret THEN acc.sink \o TierStream(a.text, from, 1, FALSE, <<>>, 0).sink
              ELSE acc.sink]

RECURSIVE AuxLoop(_, _, _)
AuxLoop(acc, fault, srcs) ==
    IF srcs = <<>> THEN acc
    ELSE AuxLoop(AuxNext(acc, checkContentsAndAck(acc.files, fault, Head(srcs)), Head(srcs)),
                 fault, Tail(srcs))

AuxBody(fs, fault, srcs) == AuxLoop([files |-> fs, sink |-> <<>>], fault, srcs)

\* mutant of SessionStage: the throttle only guards the ReportChargeStats call
SessionStage_tiers(report, fs, fault, text, tsoc) ==
    IF report THEN SessionBody(fs, fault, text, tsoc)
    ELSE [SessionBody(fs, fault, text, tsoc) EXCEPT
              !.sink = SelectSeq(@, LAMBDA r : r.atomId # "ChargeStats")]

\* the part of checkAndReport from the throttle decision to the end of the
\* primary tier loop
SessionStage(report, fs, fault, text, tsoc) ==
    IF ~report THEN [files |-> fs, tier_soc |-> tsoc, sink |-> <<>>]
    ELSE SessionBody(fs, fault, text, tsoc)

\* mutant of AuxStage: the tier-only sources are drained whatever the throttle said
AuxStage_always(report, fs, fault) ==
    AuxBody(fs, fault, <<"thermal", "gcharger", "gdbatt">>)

\* the throttle decision and the three tier-only sources after it
AuxStage(report, fs, fault) ==
    IF ~report THEN [files |-> fs, sink |-> <<>>]
    ELSE AuxBody(fs, fault, <<"thermal", "gcharger", "gdbatt">>)

DrainResult(stage, fs, log, tsoc, report, sink) ==
    [stage |-> stage, files |-> fs, log |-> log, tier_soc |-> tsoc, report |-> report,
     sink |-> sink]

DrainAux(g, s, a) == DrainResult("gated", a.files, g.log, s.tier_soc, g.ret, s.sink \o a.sink)

DrainSession(fault, g, s) == DrainAux(g, s, AuxStage(g.ret, s.files, fault))

DrainGated(fs, tsoc, fault, text, g) ==
    DrainSession(fault, g, SessionStage(g.ret, fs, fault, text, tsoc))

\* mutant of Drain: the throttle is asked before the primary log is read
Drain_gatefirst(fs, log, tsoc, fault) ==
    IF ~ReadFileToString(fs, "primary").ok
    THEN DrainResult("read_failed", fs, shouldReportEvent(getTimeSecs(fault), log).log, tsoc,
                     FALSE, <<>>)
    ELSE IF ReadFileToString(fs, "primary").text = <<>>
    THEN DrainResult("no_first_line", fs, log, tsoc, FALSE, <<>>)
    ELSE DrainGated(WriteStringToFile(fs, fault, "primary").files, tsoc, fault,
                    ReadFileToString(fs, "primary").text,
                    shouldReportEvent(getTimeSecs(fault), log))

\* One call of checkAndReport: how far it got, the state it leaves and the
\* records it handed to the stats service, in order.
Drain(fs, log, tsoc, fault) ==
    IF ~ReadFileToString(fs, "primary").ok
    THEN DrainResult("read_failed", fs, log, tsoc, FALSE, <<>>)
    ELSE IF ReadFileToString(fs, "primary").text = <<>>
    THEN DrainResult("no_first_line", fs, log, tsoc, FALSE, <<>>)
    ELSE DrainGated(WriteStringToFile(fs, fault, "primary").files, tsoc, fault,
                    ReadFileToString(fs, "primary").text,
                    shouldReportEvent(getTimeSecs(fault), log))

\* ret.isOk() of the k-th call of reportVendorAtom in a drain
reportVendorAtom(fault, k) == \A c \in SinkCalls : fault = <<"sink", c>> => CallNo(c) # k

\* mutant of StatsCalls: a failed call ends the drain
StatsCalls_abort(fault, recs) ==
    [calls |-> IF \E k \in 1..Len(recs) : ~reportVendorAtom(fault, k)
               THEN SubSeq(recs, 1, CHOOSE k \in 1..Len(recs) : ~reportVendorAtom(fault, k))
               ELSE recs,
     errors |-> Cardinality({k \in 1..Len(recs) : ~reportVendorAtom(fault, k)})]

\* the calls of reportVendorAtom a drain makes for the records recs it
\* assembles, in order, and the number of "Unable to report" errors it logs:
\* the status of a call is looked at for the log only
StatsCalls(fault, recs) ==
    [calls |-> recs,
     errors |-> Cardinality({k \in 1..Len(recs) : ~reportVendorAtom(fault, k)})]

\* the sources the drain d, started on the files fs, read
DrainReads(fs, d) ==
    {s \in Sources : fs[s] # NoFile /\ (s = "primary" \/ d.report)}

\* what the drain d did with the text of each source: "read" (and truncated,
\* unless there was no line to read), "kept" (read, the truncation failed),
\* "passed" (new text the drain left unread when it got to the throttle)
SeenAfter(sn, fs, fault, d) ==
    [s \in Sources |->
        IF s \in DrainReads(fs, d)
        THEN (IF fault = <<"clear", s>> /\ d.stage = "gated" THEN "kept" ELSE "read")
        ELSE IF d.stage = "gated" /\ fs[s] \notin {NoFile, Cleared} /\ sn[s] = "fresh"
        THEN "passed"
        ELSE sn[s]]

----------------------------------------------------------------------------
(* State machine *)

Callers == {"a", "b"}
Idle == [pc |-> "idle", t |-> 0]

NoObs ==
    [kind |-> "none", fault |-> NoFault, time |-> 0, pre |-> files, log0 |-> 0,
     prev_accept |-> NoTime, prev_emit |-> NoTime, seen0 |-> seen, stage |-> "",
     report |-> FALSE, sink |-> <<>>, errors |-> 0]

Init ==
    /\ log_event_time_secs_ = 0
    /\ tier_soc_ = 0
    /\ files = [s \in Sources |-> Cleared]
    /\ now = 0
    /\ last_accept = NoTime
    /\ last_emit = NoTime
    /\ seen = [s \in Sources |-> "fresh"]
    /\ threads = [c \in Callers |-> Idle]
    /\ obs = [kind |-> "none", fault |-> NoFault, time |-> 0,
              pre |-> [s \in Sources |-> Cleared], log0 |-> 0,
              prev_accept |-> NoTime, prev_emit |-> NoTime,
              seen0 |-> [s \in Sources |-> "fresh"], stage |-> "",
              report |-> FALSE, sink |-> <<>>, errors |-> 0]

\* a driver rewrites its node
WriteSource(s, text) ==
    /\ text # files[s]
    /\ files' = [files EXCEPT ![s] = text]
    /\ obs' = [NoObs EXCEPT !.pre = files']
    /\ UNCHANGED seen
    /\ UNCHANGED <<log_event_time_secs_, tier_soc_, now, last_accept, last_emit, threads>>

\* one second passes
Tick ==
    /\ now < MaxTime
    /\ now' = now + 1
    /\ obs' = NoObs
    /\ UNCHANGED <<log_event_time_secs_, tier_soc_, files, last_accept, last_emit, seen,
                   threads>>

\* a throttle window and a second pass
Elapse ==
    /\ now < MaxWindows * (DURATION_FILTER_SECS + 1)
    /\ now' = now + DURATION_FILTER_SECS + 1
    /\ obs' = NoObs
    /\ UNCHANGED <<log_event_time_secs_, tier_soc_, files, last_accept, last_emit, seen,
                   threads>>

\* ChargeStatsReporter::shouldReportEvent, called on its own
ReportAttempt(fault) ==
    \E g \in {shouldReportEvent(getTimeSecs(fault), log_event_time_secs_)} :
        /\ log_event_time_secs_' = g.log
        /\ last_accept' = IF g.ret THEN getTimeSecs(fault) ELSE last_accept
        /\ obs' = [NoObs EXCEPT !.kind = "attempt", !.fault = fault,
                                !.time = getTimeSecs(fault), !.log0 = log_event_time_secs_,
                                !.prev_accept = last_accept, !.stage = "gated",
                                !.report = g.ret]
        /\ UNCHANGED <<tier_soc_, files, now, last_emit, seen, threads>>

\* one call of checkAndReport under the fault: the drain d, its calls c of
\* reportVendorAtom, and what they leave
DrainStep(fault, d, c) ==
    /\ log_event_time_secs_' = d.log
    /\ tier_soc_' = d.tier_soc
    /\ files' = d.files
    /\ last_accept' = IF d.report THEN getTimeSecs(fault) ELSE last_accept
    /\ last_emit' = IF \E k \in 1..Len(c.calls) : c.calls[k].atomId = "ChargeStats"
                    THEN getTimeSecs(fault) ELSE last_emit
    /\ obs' = [kind |-> "drain", fault |-> fault, time |-> getTimeSecs(fault),
               pre |-> files, log0 |-> log_event_time_secs_,
               prev_accept |-> last_accept, prev_emit |-> last_emit,
               seen0 |-> seen, stage |-> d.stage, report |-> d.report,
               sink |-> c.calls, errors |-> c.errors]
    /\ UNCHANGED <<now, threads>>

\* ChargeStatsReporter::checkAndReport(stats_client, path)
checkAndReport(fault) ==
    \E d \in {Drain(files, log_event_time_secs_, tier_soc_, fault)} :
        /\ DrainStep(fault, d, StatsCalls(fault, d.sink))
        /\ UNCHANGED seen

Next ==
    \/ Elapse
    \/ \E s \in Sources : \E text \in Contents[s] : WriteSource(s, text)
    \/ \E fault \in Faults : checkAndReport(fault)

Spec == Init /\ [][Next]_vars

\* the drains with the history of each text kept: every driver has one log to
\* write, and a drain meets no failing call or a failing clear
OneLog ==
    [s \in Sources |->
        CASE s = "primary" -> "base" [] s = "wireless" -> "wlc" [] s = "pca" -> "pca"
          [] s = "thermal" -> "tiers" [] s = "gcharger" -> "pdo" [] s = "gdbatt" -> "tier"]

\* one clear of each kind can fail: of the primary log (checkAndReport), of a
\* side channel (Check...ContentsAndAck), of a tier-only log (checkContentsAndAck)
SeenFaults ==
    {NoFault, <<"clear", "primary">>, <<"clear", "wireless">>, <<"clear", "thermal">>}

\* a driver writes a new log into its node
Rewrite(s) ==
    /\ files' = [files EXCEPT ![s] = OneLog[s]]
    /\ seen' = [seen EXCEPT ![s] = "fresh"]
    /\ obs' = [NoObs EXCEPT !.pre = files', !.seen0 = seen']
    /\ UNCHANGED <<log_event_time_secs_, tier_soc_, now, last_accept, last_emit, threads>>

\* a throttle window and a second pass
ElapseSeen ==
    /\ now < MaxSeenWindows * (DURATION_FILTER_SECS + 1)
    /\ now' = now + DURATION_FILTER_SECS + 1
    /\ obs' = NoObs
    /\ UNCHANGED <<log_event_time_secs_, tier_soc_, files, last_accept, last_emit, seen,
                   threads>>

checkAndReportSeen(fault) ==
    \E d \in {Drain(files, log_event_time_secs_, tier_soc_, fault)} :
        /\ DrainStep(fault, d, StatsCalls(fault, d.sink))
        /\ seen' = SeenAfter(seen, files, fault, d)

NextSeen ==
    \/ ElapseSeen
    \/ \E s \in Sources : Rewrite(s)
    \/ \E fault \in SeenFaults : checkAndReportSeen(fault)

\* the reporter is constructed one second after boot
InitSeen ==
    /\ log_event_time_secs_ = 0
    /\ tier_soc_ = 0
    /\ files = [s \in Sources |-> Cleared]
    /\ now = 1
    /\ last_accept = NoTime
    /\ last_emit = NoTime
    /\ seen = [s \in Sources |-> "fresh"]
    /\ threads = [c \in Callers |-> Idle]
    /\ obs = [kind |-> "none", fault |-> NoFault, time |-> 0,
              pre |-> [s \in Sources |-> Cleared], log0 |-> 0,
              prev_accept |-> NoTime, prev_emit |-> NoTime,
              seen0 |-> [s \in Sources |-> "fresh"], stage |-> "",
              report |-> FALSE, sink |-> <<>>, errors |-> 0]

SpecSeen == InitSeen /\ [][NextSeen]_vars

\* the throttle alone, second by second
NextGate ==
    \/ Tick
    \/ \E fault \in {NoFault, <<"clock", "">>} : ReportAttempt(fault)

SpecGate == Init /\ [][NextGate]_vars

\* shouldReportEvent run by two callers with nothing to serialise them: the
\* read of the clock, the test of log_event_time_secs_ and the store into it
\* are separate steps of each caller, and the steps of the two interleave
\* freely (the member is a plain int64_t, the function takes no lock).

\* const int64_t current_time = getTimeSecs();
ReadClock(c) ==
    /\ threads[c].pc = "idle"
    /\ threads' = [threads EXCEPT ![c] = [pc |-> "timed", t |-> now]]
    /\ obs' = NoObs
    /\ UNCHANGED <<log_event_time_secs_, tier_soc_, files, now, last_accept, last_emit, seen>>

\* if (current_time == 0) return false;
\* if (log_event_time_secs_ == 0 || log_event_time_secs_ + 15 < current_time) ...
\* return false;
CheckWindow(c) ==
    /\ threads[c].pc = "timed"
    /\ IF threads[c].t # 0
          /\ (log_event_time_secs_ = 0
              \/ log_event_time_secs_ + DURATION_FILTER_SECS < threads[c].t)
       THEN /\ threads' = [threads EXCEPT ![c].pc = "checked"]
            /\ obs' = NoObs
       ELSE /\ threads' = [threads EXCEPT ![c] = Idle]
            /\ obs' = [NoObs EXCEPT !.kind = "attempt", !.time = threads[c].t,
                                    !.log0 = log_event_time_secs_,
                                    !.prev_accept = last_accept, !.stage = "gated"]
    /\ UNCHANGED <<log_event_time_secs_, tier_soc_, files, now, last_accept, last_emit, seen>>

\* log_event_time_secs_ = current_time; return true;
SetAnchor(c) ==
    /\ threads[c].pc = "checked"
    /\ log_event_time_secs_' = threads[c].t
    /\ last_accept' = threads[c].t
    /\ threads' = [threads EXCEPT ![c] = Idle]
    /\ obs' = [NoObs EXCEPT !.kind = "attempt", !.time = threads[c].t,
                            !.log0 = log_event_time_secs_, !.prev_accept = last_accept,
                            !.stage = "gated", !.report = TRUE]
    /\ UNCHANGED <<tier_soc_, files, now, last_emit, seen>>

\* one second passes
RaceTick ==
    /\ now < MaxRaceTime
    /\ now' = now + 1
    /\ obs' = NoObs
    /\ UNCHANGED <<log_event_time_secs_, tier_soc_, files, last_accept, last_emit, seen,
                   threads>>

NextRace ==
    \/ RaceTick
    \/ \E c \in Callers : ReadClock(c)
    \/ \E c \in Callers : CheckWindow(c)
    \/ \E c \in Callers : SetAnchor(c)

SpecRace == Init /\ [][NextRace]_vars

----------------------------------------------------------------------------
(* What the last step shows *)

Attempted == obs.kind = "attempt"
\* the last step was a drain that got as far as asking shouldReportEvent
Gated == obs.kind = "drain" /\ obs.stage = "gated"
Rejected == Gated /\ ~obs.report
Accepted == Gated /\ obs.report

AuxSources == {"thermal", "gcharger", "gdbatt"}
PreText(s) == TextOf[obs.pre[s]]
\* the source was there and the drain was able to clear it
Ackable(s) == obs.pre[s] # NoFile /\ obs.fault # <<"clear", s>>

WellFormedTier(line) == Len(Sscanf(line, VTIER_FMT)) = 16
RECURSIVE TierIdx(_, _)
\* the indices, from i on, of the lines of text that yield 16 fields, in order
TierIdx(text, i) ==
    IF i > Len(text) THEN <<>>
    ELSE (IF WellFormedTier(text[i]) THEN <<i>> ELSE <<>>) \o TierIdx(text, i + 1)

SessionRecords == SelectSeq(obs.sink, LAMBDA r : r.atomId = "ChargeStats")
TierRecords(s) ==
    SelectSeq(obs.sink, LAMBDA r : r.atomId = "VoltageTierStats" /\ r.from = s)
\* the line numbers of the tier samples emitted for source s, in emission order
TierRecordIdx(s) == LET t == TierRecords(s) IN [k \in 1..Len(t) |-> t[k].idx]

----------------------------------------------------------------------------
(* C1..C10 *)

\* C1 (as stated): an attempt at a non-zero time T is accepted iff nothing was
\* accepted before or T >= A + 15, A the time of the last accepted attempt.
C1_AcceptedIffAtLeast15 ==
    (Attempted /\ obs.time # 0) =>
        (obs.report <=> (obs.prev_accept = NoTime
                         \/ obs.time >= obs.prev_accept + DURATION_FILTER_SECS))

\* C1 (amended): an attempt at a non-zero time T is accepted iff nothing was
\* accepted before or T > A + 15; the anchor is the time of the last accepted
\* attempt, and a rejected attempt does not move it.
C1_AcceptedIffAfter15 ==
    /\ log_event_time_secs_ = (IF last_accept = NoTime THEN 0 ELSE last_accept)
    /\ (Attempted /\ obs.time # 0) =>
          /\ obs.report <=> (obs.prev_accept = NoTime
                             \/ obs.time > obs.prev_accept + DURATION_FILTER_SECS)
          /\ obs.report => last_accept = obs.time
          /\ ~obs.report => last_accept = obs.prev_accept /\ log_event_time_secs_ = obs.log0

C1_Witness ==
    /\ Attempted /\ ~obs.report
    /\ obs.prev_accept # NoTime
    /\ obs.time = obs.prev_accept + DURATION_FILTER_SECS
    /\ log_event_time_secs_ = obs.prev_accept

\* C2: an attempt made while the boot clock reads zero is rejected, in IDLE and
\* in COOLDOWN, and leaves the anchor as it was.
C2_ZeroClockRejected ==
    (Attempted /\ obs.time = 0) =>
        ~obs.report /\ log_event_time_secs_ = obs.log0 /\ last_accept = obs.prev_accept

C2_Witness ==
    Attempted /\ obs.time = 0 /\ obs.log0 = 0 /\ ~obs.report /\ log_event_time_secs_ = 0

\* C3: a drain whose session the throttle rejects emits no session record and
\* no tier sample for a line of the primary log.
C3_RejectedEmitsNothingOfPrimary ==
    Rejected => SessionRecords = <<>> /\ TierRecords("primary") = <<>>

C3_Witness ==
    /\ Rejected /\ obs.time # 0
    /\ obs.pre["primary"] = "base"
    /\ TierIdx(PreText("primary"), 2) # <<>>
    /\ obs.sink = <<>>

\* C4 (as stated): a drain whose session the throttle rejects still reads and
\* clears the thermal, generic-charger and dual-battery sources and emits one
\* tier sample per well-formed line of each.
C4_RejectedStillDrainsAux ==
    Rejected =>
        \A s \in AuxSources :
            Ackable(s) =>
                files[s] = Cleared /\ TierRecordIdx(s) = TierIdx(PreText(s), 1)

\* C4 (amended): a drain whose session the throttle rejects ends there: the
\* thermal, generic-charger and dual-battery sources keep their text and no
\* tier sample is emitted for them.
C4_RejectedLeavesAux ==
    Rejected =>
        \A s \in AuxSources : files[s] = obs.pre[s] /\ TierRecords(s) = <<>>

C4_Witness ==
    /\ Rejected
    /\ obs.pre["thermal"] = "tiers" /\ obs.pre["gcharger"] = "pdo"
    /\ obs.pre["gdbatt"] = "tier"
    /\ obs.fault = NoFault
    /\ \A s \in AuxSources : files[s] = obs.pre[s] /\ TierIdx(PreText(s), 1) # <<>>
    /\ obs.sink = <<>>

\* the first line of the primary log matches none of the three summary formats
MatchesNone(line) ==
    \A f \in {CHG_STATS_FMT0, CHG_STATS_FMT1, CHG_STATS_FMT2} :
        Len(Sscanf(line, f)) # Len(f.convs)
SummaryMalformed == Gated /\ MatchesNone(PreText("primary")[1])

\* C5 (as stated): when the first primary line matches no summary format the
\* drain emits nothing at all.
C5_MalformedSummaryEmitsNothing ==
    SummaryMalformed => obs.sink = <<>>

\* C5 (amended): when the first primary line matches no summary format no
\* session record is emitted, but an accepted drain goes on: every later
\* primary line that yields 16 fields gives a tier sample, and so does every
\* such line of each tier-only source the drain reads and clears.
C5_MalformedSummaryDropsSessionOnly ==
    (SummaryMalformed /\ obs.report) =>
        /\ SessionRecords = <<>>
        /\ TierRecordIdx("primary") = TierIdx(PreText("primary"), 2)
        /\ \A s \in AuxSources :
              Ackable(s) => TierRecordIdx(s) = TierIdx(PreText(s), 1)

C5_Witness ==
    /\ SummaryMalformed /\ obs.report
    /\ obs.pre["primary"] = "short"
    /\ obs.pre["thermal"] = "tiers" /\ obs.fault = NoFault
    /\ SessionRecords = <<>>
    /\ Len(TierRecords("primary")) = 1 /\ Len(TierRecords("thermal")) = 2

\* the side channels as the drain met them
HasWlc == obs.pre["wireless"] # NoFile
HasPca == obs.pre["pca"] # NoFile
WlcAtLine == LineAt(PreText("wireless"), 1)
WlcAcLine == LineAt(PreText("wireless"), 2)
PcaSnapshot == LineAt(PreText("pca"), 1)
WellFormedWlc ==
    /\ HasWlc
    /\ Len(Sscanf(WlcAtLine, WLC_AT_FMT)) = 1
    /\ Len(Sscanf(WlcAcLine, WLC_AC_FMT)) = 7
WellFormedPca == HasPca /\ Len(Sscanf(PcaSnapshot, PCA_FMT)) = 7

\* the generic-charger lines that yield 7 hex fields
PdoLines ==
    IF obs.pre["gcharger"] = NoFile THEN {}
    ELSE {i \in 1..Len(PreText("gcharger")) :
            Len(Sscanf(PreText("gcharger")[i], PDO_FMT)) = 7}
FirstPdoLine ==
    PreText("gcharger")[CHOOSE i \in PdoLines : \A j \in PdoLines : i <= j]

Hex(line, i) == Value(line.toks[i].digits, 16)
Dec(line, i) == Value(line.toks[i].digits, 10)
SummaryLine == PreText("primary")[1]
\* field i of the summary line (counted from 0), zero when the line ends before it
SummaryField(i) == IF i + 1 <= Len(SummaryLine.toks) THEN Dec(SummaryLine, i + 1) ELSE 0

Populated(r) == {i \in DOMAIN r.values : r.values[i] # Unset}

\* the last drain handed a session record to the stats service
SessionEmitted == Accepted /\ SessionRecords # <<>>
Rec == SessionRecords[1].values

\* C6 (as stated): whenever the generic-charger source has a line of 7 hex
\* fields, the session record carries the APDO and PDO of the first such line
\* in slots 15 and 16, with or without a wireless or PCA snapshot.
C6_PdoAlwaysInSlots15And16 ==
    (SessionEmitted /\ PdoLines # {}) =>
        Rec[15] = Hex(FirstPdoLine, 2) /\ Rec[16] = Hex(FirstPdoLine, 7)

\* C6 (amended): whenever the generic-charger source has a line of 7 hex
\* fields, the session record carries the APDO and PDO of the first such line
\* in slots 15 and 16 if a well-formed wireless or PCA snapshot is present,
\* whatever they wrote there; with neither, slots 15 and 16 are not populated.
C6_PdoInSlots15And16WhenExtended ==
    (SessionEmitted /\ PdoLines # {}) =>
        IF WellFormedWlc \/ WellFormedPca
        THEN Rec[15] = Hex(FirstPdoLine, 2) /\ Rec[16] = Hex(FirstPdoLine, 7)
        ELSE Rec[15] = Unset /\ Rec[16] = Unset

C6_Witness ==
    /\ SessionEmitted /\ WellFormedWlc /\ WellFormedPca
    /\ Cardinality(PdoLines) = 2
    /\ Rec[15] = Hex(PdoLine(3), 2) /\ Rec[16] = Hex(PdoLine(3), 7)
    /\ Rec[15] # Hex(WlcAcLine, 6) /\ Rec[16] # Hex(PcaSnapshot, 4)

\* C7: with a well-formed wireless and a well-formed PCA snapshot and no PDO
\* line, the session record has 17 populated slots, slot 0 is the translated
\* wireless adapter type and not the PPS sentinel, slots 10, 11, 15 hold the
\* wireless values and slots 12, 13, 14, 16 the PCA values.
C7_BothSideChannels ==
    (SessionEmitted /\ WellFormedWlc /\ WellFormedPca /\ PdoLines = {}) =>
        /\ Populated(SessionRecords[1]) = 0..16
        /\ Rec[0] = TranslateSysModeToAtomValue(Dec(WlcAtLine, 1))
        /\ Rec[0] # ADAPTER_TYPE_USB_PD_PPS
        /\ Rec[10] = Hex(WlcAcLine, 1) /\ Rec[11] = Hex(WlcAcLine, 2)
        /\ Rec[15] = Hex(WlcAcLine, 6)
        /\ Rec[12] = Hex(PcaSnapshot, 5) /\ Rec[13] = Hex(PcaSnapshot, 6)
        /\ Rec[14] = Hex(PcaSnapshot, 7) /\ Rec[16] = Hex(PcaSnapshot, 4)

C7_Witness ==
    /\ SessionEmitted /\ WellFormedWlc /\ WellFormedPca /\ PdoLines = {}
    /\ Rec[0] = 102 /\ Rec[10] = 17 /\ Rec[12] = 37 /\ Rec[16] = 36

\* C8: with only a well-formed wireless snapshot (and no PDO line) slot 0 is
\* the translated adapter type and slots 10-16 the seven wireless values in
\* order; with only a well-formed PCA snapshot slot 0 is the PPS sentinel and
\* slots 10, 11, 15 and 12, 13, 14, 16 all come from PCA.  Slots 1-9 are those
\* of the summary line in both cases.
C8_OneSideChannel ==
    /\ (SessionEmitted /\ WellFormedWlc /\ ~WellFormedPca /\ PdoLines = {}) =>
          /\ Populated(SessionRecords[1]) = 0..16
          /\ Rec[0] = TranslateSysModeToAtomValue(Dec(WlcAtLine, 1))
          /\ \A k \in 1..7 : Rec[9 + k] = Hex(WlcAcLine, k)
          /\ \A i \in 1..9 : Rec[i] = SummaryField(i)
    /\ (SessionEmitted /\ WellFormedPca /\ ~HasWlc /\ PdoLines = {}) =>
          /\ Populated(SessionRecords[1]) = 0..16
          /\ Rec[0] = ADAPTER_TYPE_USB_PD_PPS
          /\ Rec[10] = Hex(PcaSnapshot, 1) /\ Rec[11] = Hex(PcaSnapshot, 2)
          /\ Rec[15] = Hex(PcaSnapshot, 3)
          /\ Rec[12] = Hex(PcaSnapshot, 5) /\ Rec[13] = Hex(PcaSnapshot, 6)
          /\ Rec[14] = Hex(PcaSnapshot, 7) /\ Rec[16] = Hex(PcaSnapshot, 4)
          /\ \A i \in 1..9 : Rec[i] = SummaryField(i)

C8_Witness ==
    /\ SessionEmitted /\ WellFormedPca /\ ~HasWlc /\ PdoLines = {}
    /\ obs.pre["primary"] = "csi"
    /\ Rec[0] = ADAPTER_TYPE_USB_PD_PPS /\ Rec[10] = 33 /\ Rec[15] = 35
    /\ Rec[7] = 50 /\ Rec[9] = 2

\* C9: a malformed side-channel snapshot is treated as absent: the session
\* record of a drain that met a malformed wireless snapshot is the one
\* assembled without a wireless snapshot, and likewise for a malformed PCA line.
C9_MalformedIsAbsent ==
    LET rd == ReadFileToString(obs.pre, "gcharger")
        pca == IF HasPca THEN PcaSnapshot ELSE EmptyLine
        wat == IF HasWlc THEN WlcAtLine ELSE EmptyLine
        wac == IF HasWlc THEN WlcAcLine ELSE EmptyLine
    IN  /\ (SessionEmitted /\ HasWlc /\ ~WellFormedWlc) =>
              SessionRecords = ReportChargeStats(SummaryLine, EmptyLine, EmptyLine, pca, rd)
        /\ (SessionEmitted /\ HasPca /\ ~WellFormedPca) =>
              SessionRecords = ReportChargeStats(SummaryLine, wat, wac, EmptyLine, rd)

\* C10: a session record has exactly 10 populated slots when neither a
\* well-formed wireless nor a well-formed PCA snapshot is present and exactly
\* 17 otherwise; a tier sample has exactly 16 without wireless augmentation
\* and exactly 20 with it.
C10_PopulatedCounts ==
    \A k \in 1..Len(obs.sink) :
        LET r == obs.sink[k]
        IN  IF r.atomId = "ChargeStats"
            THEN Populated(r) = (IF WellFormedWlc \/ WellFormedPca THEN 0..16 ELSE 0..9)
            ELSE Populated(r) = (IF r.from = "primary" /\ HasWlc THEN 0..19 ELSE 0..15)

C10_Witness ==
    /\ SessionEmitted /\ obs.pre["primary"] = "nine"
    /\ Cardinality(Populated(SessionRecords[1])) = 17
    /\ \E k \in 1..Len(obs.sink) :
          obs.sink[k].from = "primary" /\ Cardinality(Populated(obs.sink[k])) = 20
    /\ \E k \in 1..Len(obs.sink) :
          obs.sink[k].from = "thermal" /\ Cardinality(Populated(obs.sink[k])) = 16

----------------------------------------------------------------------------
(* C11..C20 *)

Drained == obs.kind = "drain"

\* C11: text a drain read from a source and truncated is never delivered again:
\* the node then holds the cleared marker (or no line at all), and a later
\* drain that finds it builds no record from it: no tier sample of that
\* source, no session record if it is the primary log, no wireless, PCA or PDO
\* values in the session record if it is one of those logs.
C11_NoRedelivery ==
    /\ \A s \in Sources : seen[s] = "read" => TextOf[files[s]] \in {ClearedText, <<>>}
    /\ Drained =>
          \A s \in Sources :
              obs.seen0[s] = "read" =>
                  /\ TierRecords(s) = <<>>
                  /\ s = "primary" => SessionRecords = <<>>
                  /\ s = "wireless" => ~WellFormedWlc
                  /\ s = "pca" => ~WellFormedPca
                  /\ s = "gcharger" => PdoLines = {}

\* a second accepted drain finds a new primary log and the thermal and
\* generic-charger nodes as the first accepted drain left them
C11_Witness ==
    /\ SessionEmitted /\ obs.prev_emit # NoTime
    /\ obs.seen0["primary"] = "fresh"
    /\ obs.seen0["thermal"] = "read" /\ obs.seen0["gcharger"] = "read"
    /\ obs.seen0["gdbatt"] = "fresh" /\ obs.pre["gdbatt"] = "tier"
    /\ TierRecords("thermal") = <<>> /\ Len(TierRecords("gdbatt")) = 1
    /\ Populated(SessionRecords[1]) = 0..9

\* the clear of source s failed in the last drain, after s was read
ClearFailed(s) == Drained /\ obs.fault = <<"clear", s>> /\ obs.pre[s] # NoFile
\* the records the primary log yields: a session record if its first line
\* matches a summary format, a tier sample per later line of 16 fields
PrimaryYield ==
    /\ Len(SessionRecords) = (IF MatchesNone(SummaryLine) THEN 0 ELSE 1)
    /\ TierRecordIdx("primary") = TierIdx(PreText("primary"), 2)

\* C12 (as stated): when the read of the primary, thermal, generic-charger or
\* dual-battery source succeeds and its clear fails, the drain still emits the
\* records the well-formed lines of that text yield.
C12_ClearFailureNeverBlocks ==
    /\ (Accepted /\ ClearFailed("primary")) => PrimaryYield
    /\ \A s \in AuxSources :
          (Accepted /\ ClearFailed(s)) => TierRecordIdx(s) = TierIdx(PreText(s), 1)

\* C12 (amended): a failed clear of the primary source does not block the use
\* of its text; a failed clear of the thermal, generic-charger or dual-battery
\* source makes the drain treat that source as absent: no tier sample is
\* emitted for it and its text stays in the node, while the other sources are
\* drained as usual.
C12_ClearFailureBlocksAuxOnly ==
    /\ (Accepted /\ ClearFailed("primary")) =>
          PrimaryYield /\ files["primary"] = obs.pre["primary"]
    /\ \A s \in AuxSources :
          (Accepted /\ ClearFailed(s)) =>
              /\ TierRecords(s) = <<>> /\ files[s] = obs.pre[s]
              /\ PrimaryYield
              /\ \A o \in AuxSources \ {s} :
                    obs.pre[o] # NoFile =>
                        TierRecordIdx(o) = TierIdx(PreText(o), 1) /\ files[o] = Cleared

C12_Witness ==
    /\ Accepted /\ ClearFailed("thermal")
    /\ obs.pre["thermal"] = "tiers" /\ files["thermal"] = "tiers"
    /\ TierRecords("thermal") = <<>>
    /\ obs.pre["primary"] = "base" /\ Len(TierRecords("primary")) = 2
    /\ obs.pre["gdbatt"] = "tier" /\ Len(TierRecords("gdbatt")) = 1

\* the tier streams the last drain processed, with the line of their first tier line
Processed(s) == Accepted /\ (s = "primary" \/ (s \in AuxSources /\ Ackable(s)))
FirstTierLine(s) == IF s = "primary" THEN 2 ELSE 1
\* tier sample r was built from line r.idx of its stream
FromItsLine(r, text) ==
    /\ r.idx \in 1..Len(text) /\ WellFormedTier(text[r.idx])
    /\ r.values[0] = Dec(text[r.idx], 1)
    /\ r.values[1] = Dec(text[r.idx], 2) * 10 + text[r.idx].toks[2].frac
    /\ \A i \in 2..15 : r.values[i] = Dec(text[r.idx], i + 1)

\* C13: for every tier stream a drain processes, the tier samples handed to
\* the stats service are, one to one and in the order of the lines, those of
\* the lines that yield 16 fields; a line that does not yield 16 fields gives
\* no record and does not stop the lines after it from being processed.
C13_TierSamplesFollowLines ==
    \A s \in {"primary"} \cup AuxSources :
        Processed(s) =>
            /\ TierRecordIdx(s) = TierIdx(PreText(s), FirstTierLine(s))
            /\ \A k \in 1..Len(TierRecords(s)) : FromItsLine(TierRecords(s)[k], PreText(s))

\* a malformed line between two well-formed ones, in the primary and in the
\* thermal stream
C13_Witness ==
    /\ Processed("primary") /\ Processed("thermal")
    /\ obs.pre["primary"] = "base" /\ obs.pre["thermal"] = "tiers"
    /\ ~WellFormedTier(PreText("primary")[3]) /\ ~WellFormedTier(PreText("thermal")[2])
    /\ TierRecordIdx("primary") = <<2, 4>> /\ TierRecordIdx("thermal") = <<1, 3>>
    /\ TierRecords("primary")[2].values[0] = 2 /\ TierRecords("thermal")[2].values[0] = 4
    /\ TierRecords("thermal")[1].values[1] = 855

\* the number of fields the positional scan of the summary line yields
Yield(fmt) == Len(Sscanf(SummaryLine, fmt))
\* neither side channel was there to overwrite the adapter type
NoSideChannel == obs.pre["wireless"] = NoFile /\ obs.pre["pca"] = NoFile
\* slots 0..n-1 of the session record hold the first n fields of the summary line
SlotsFromSummary(n) ==
    /\ \A i \in 1..(n - 1) : Rec[i] = SummaryField(i)
    /\ NoSideChannel => Rec[0] = SummaryField(0)

\* C14: the summary formats are tried richest first: a line that yields 10
\* fields resolves to CSI and fills slots 0-9 with them; otherwise a line
\* that yields 8 fields resolves to AACR and fills slots 0-7; otherwise a line
\* that yields 7 fields resolves to base and fills slots 0-6.
C14_RichestFormatFirst ==
    SessionEmitted =>
        IF Yield(CHG_STATS_FMT2) = 10
        THEN ScanSummary(SummaryLine).fmt = "CSI" /\ SlotsFromSummary(10)
        ELSE IF Yield(CHG_STATS_FMT1) = 8
        THEN ScanSummary(SummaryLine).fmt = "AACR" /\ SlotsFromSummary(8)
        ELSE /\ Yield(CHG_STATS_FMT0) = 7
             /\ ScanSummary(SummaryLine).fmt = "base" /\ SlotsFromSummary(7)

\* a line that satisfies the CSI, the AACR and the base scan resolves to CSI
C14_Witness ==
    /\ SessionEmitted /\ NoSideChannel
    /\ Yield(CHG_STATS_FMT2) = 10 /\ Yield(CHG_STATS_FMT1) = 8 /\ Yield(CHG_STATS_FMT0) = 7
    /\ Rec[0] = 3 /\ Rec[6] = 45 /\ Rec[7] = 50 /\ Rec[8] = 7 /\ Rec[9] = 2

\* the last drain could not read the primary source
PrimaryReadFailed == Drained /\ obs.pre["primary"] = NoFile

\* C15: when the read of the primary source fails the drain ends at once: no
\* record is handed to the stats service, no source is read further or
\* truncated, and the throttle anchor is as it was, so the next drain meets
\* the throttle the failed drain found.
C15_PrimaryReadFailureAborts ==
    PrimaryReadFailed =>
        /\ obs.stage = "read_failed" /\ ~obs.report
        /\ obs.sink = <<>> /\ obs.errors = 0
        /\ files = obs.pre
        /\ log_event_time_secs_ = obs.log0 /\ last_accept = obs.prev_accept

\* the side channels and tier-only sources hold logs and the throttle is idle
C15_Witness ==
    /\ PrimaryReadFailed /\ obs.fault = NoFault
    /\ obs.time # 0 /\ obs.log0 = 0 /\ log_event_time_secs_ = 0
    /\ obs.pre["wireless"] = "wlc" /\ obs.pre["pca"] = "pca"
    /\ obs.pre["thermal"] = "tiers" /\ obs.pre["gcharger"] = "pdo"
    /\ obs.pre["gdbatt"] = "tier"
    /\ files = obs.pre /\ obs.sink = <<>>

\* C16: the throttle anchor is the time of the last drain that emitted a
\* session record, zero if there was none, and a drain that emits no session
\* record leaves the anchor as it was.
C16_AnchorIsLastSessionEmission ==
    /\ log_event_time_secs_ = (IF last_emit = NoTime THEN 0 ELSE last_emit)
    /\ (Drained /\ SessionRecords = <<>>) => log_event_time_secs_ = obs.log0

SideChannels == Sources \ {"primary"}

\* C17: in a drain whose primary source is readable every side channel is
\* read and cleared before the throttle is asked, whatever it answers; so the
\* session record of a drain never carries wireless or PCA data that an
\* earlier drain, whose session was throttled, had found in the node.
C17_SideChannelsReadBeforeGate ==
    /\ Gated => \A s \in SideChannels : Ackable(s) => files[s] = Cleared
    /\ SessionEmitted =>
          /\ obs.seen0["wireless"] = "passed" => ~WellFormedWlc
          /\ obs.seen0["pca"] = "passed" => ~WellFormedPca

ResolvesToAACR == Yield(CHG_STATS_FMT2) # 10 /\ Yield(CHG_STATS_FMT1) = 8
ResolvesToBase ==
    Yield(CHG_STATS_FMT2) # 10 /\ Yield(CHG_STATS_FMT1) # 8 /\ Yield(CHG_STATS_FMT0) = 7

\* C18: a failed attempt at a richer summary format leaves nothing behind: the
\* session record of a line that resolves to AACR has zero in slots 8 and 9,
\* that of a line that resolves to base has zero in slots 7, 8 and 9; and with
\* no well-formed wireless or PCA snapshot and no PDO line slots 10-16 are not
\* written.
C18_FailedAttemptLeavesNothing ==
    SessionEmitted =>
        /\ ResolvesToAACR => Rec[8] = 0 /\ Rec[9] = 0
        /\ ResolvesToBase => Rec[7] = 0 /\ Rec[8] = 0 /\ Rec[9] = 0
        /\ (~WellFormedWlc /\ ~WellFormedPca /\ PdoLines = {}) =>
              \A i \in 10..16 : Rec[i] = Unset

\* C19: when two drains run at once on the same reporter, the test of the
\* anchor and its update act as one atomic step: no caller passes the test
\* while another has passed it and not yet stored, and two attempts whose
\* boot times lie within the same 15-second window are never both accepted.
C19_CheckThenSetAtomic ==
    /\ Cardinality({c \in Callers : threads[c].pc = "checked"}) <= 1
    /\ (Attempted /\ obs.report /\ obs.prev_accept # NoTime) =>
          \/ obs.time >= obs.prev_accept + DURATION_FILTER_SECS
          \/ obs.prev_accept >= obs.time + DURATION_FILTER_SECS

\* a call of reportVendorAtom failed in the last drain
SinkFailed == Accepted /\ obs.fault[1] = "sink" /\ CallNo(obs.fault[2]) <= Len(obs.sink)

\* C20: every assembled record is handed to the stats service exactly once;
\* a failed call is logged and not made again, and the drain goes on to
\* assemble and hand over every remaining record, in order, as it would have
\* had the call succeeded.
C20_SinkFailureIgnored ==
    SinkFailed =>
        /\ \A j, k \in 1..Len(obs.sink) : obs.sink[j] = obs.sink[k] => j = k
        /\ PrimaryYield
        /\ \A s \in AuxSources :
              obs.pre[s] # NoFile =>
                  TierRecordIdx(s) = TierIdx(PreText(s), 1) /\ files[s] = Cleared
        /\ obs.sink = SessionRecords \o TierRecords("primary") \o TierRecords("thermal")
                          \o TierRecords("gcharger") \o TierRecords("gdbatt")
        /\ obs.sink = Drain(obs.pre, obs.log0, 0, NoFault).sink
        /\ obs.errors = 1

\* the call for the session record fails; the tier samples of the primary
\* log and of the thermal log follow
C20_Witness ==
    /\ SinkFailed /\ obs.fault = <<"sink", "1">>
    /\ obs.pre["primary"] = "base" /\ obs.pre["thermal"] = "tiers"
    /\ obs.sink[1].atomId = "ChargeStats"
    /\ Len(SessionRecords) = 1
    /\ Len(TierRecords("primary")) = 2 /\ Len(TierRecords("thermal")) = 2
    /\ obs.errors = 1

====
